---- MODULE Spec2Model ----
(***************************************************************************)
(* Model of tower-http-tracing: the request span middleware                *)
(* (src/src/lib.rs, src/src/grpc.rs, src/src/headers.rs) and the W3C       *)
(* traceparent propagation strategy (src/src/datadog.rs).                  *)
(*                                                                         *)
(* Byte strings are sequences of byte values 0..255.  An Option is a       *)
(* sequence of length at most one (<<>> is None).  A header map is a       *)
(* function from header names to the sequence of values stored under the   *)
(* name (<<>> when the name is absent).  u128/u64 identifiers are kept as  *)
(* big-endian sequences of hexadecimal digits 0..15 without leading zeros  *)
(* (<<>> is zero), so no width is lost.                                    *)
(***************************************************************************)
EXTENDS Integers, Sequences, FiniteSets, TLC

VARIABLES layer, phase, polls, held, fut, span, log, handler, innerOut, out,
          headers, before, op, ctxIn, ctxOut

vars == <<layer, phase, polls, held, fut, span, log, handler, innerOut, out,
          headers, before, op, ctxIn, ctxOut>>

mwVars == <<layer, phase, polls, held, fut, span, log, handler, innerOut, out>>

propVars == <<headers, before, op, ctxIn, ctxOut>>

\* Number of requests in flight on the service.
NumReq == 2

\* Cap on the number of polls of one ResponseFut that return Pending.
MaxPolls == 2

Futs == 1..NumReq

\* ------------------------------------------------------------------------
\* Byte strings
\* ------------------------------------------------------------------------

Min(a, b) == IF a <= b THEN a ELSE b

StartsWith(s, p) == Len(s) >= Len(p) /\ SubSeq(s, 1, Len(p)) = p

Some(x) == <<x>>

None == <<>>

\* core::str::from_utf8 succeeds (used by RequestId::as_str).
RECURSIVE Utf8From(_, _)
Utf8From(b, i) ==
    IF i > Len(b) THEN TRUE
    ELSE LET c == b[i]
             In(j, lo, hi) == j <= Len(b) /\ b[j] >= lo /\ b[j] <= hi
             Cont(j) == In(j, 128, 191)
         IN  IF c < 128 THEN Utf8From(b, i + 1)
             ELSE IF c >= 194 /\ c <= 223 THEN Cont(i + 1) /\ Utf8From(b, i + 2)
             ELSE IF c = 224 THEN In(i + 1, 160, 191) /\ Cont(i + 2) /\ Utf8From(b, i + 3)
             ELSE IF c = 237 THEN In(i + 1, 128, 159) /\ Cont(i + 2) /\ Utf8From(b, i + 3)
             ELSE IF c >= 225 /\ c <= 239 THEN Cont(i + 1) /\ Cont(i + 2) /\ Utf8From(b, i + 3)
             ELSE IF c = 240 THEN In(i + 1, 144, 191) /\ Cont(i + 2) /\ Cont(i + 3) /\ Utf8From(b, i + 4)
             ELSE IF c >= 241 /\ c <= 243 THEN Cont(i + 1) /\ Cont(i + 2) /\ Cont(i + 3) /\ Utf8From(b, i + 4)
             ELSE IF c = 244 THEN In(i + 1, 128, 143) /\ Cont(i + 2) /\ Cont(i + 3) /\ Utf8From(b, i + 4)
             ELSE FALSE

IsUtf8(b) == Utf8From(b, 1)

\* http::HeaderValue::to_str succeeds: visible ASCII or tab only.
IsVisibleAscii(b) == \A i \in 1..Len(b) : (b[i] >= 32 /\ b[i] < 127) \/ b[i] = 9

\* http::HeaderValue::from_bytes succeeds.
IsValidHeaderValue(b) == \A i \in 1..Len(b) : (b[i] >= 32 /\ b[i] # 127) \/ b[i] = 9

\* ------------------------------------------------------------------------
\* Header maps
\* ------------------------------------------------------------------------

HeaderNames == {"content-type", "x-request-id", "user-agent", "forwarded",
                "grpc-status", "content-length", "traceparent"}

EmptyHeaders == [n \in HeaderNames |-> <<>>]

\* HeaderMap::get: the first value stored under the name.
HeaderGet(h, name) == IF h[name] = <<>> THEN None ELSE Some(h[name][1])

\* HeaderMap::insert: the value replaces every value stored under the name.
HeaderInsert(h, name, value) == [h EXCEPT ![name] = <<value>>]

REQUEST_ID == "x-request-id"

\* ------------------------------------------------------------------------
\* Protocol
\* ------------------------------------------------------------------------

\* b"application/grpc"
GrpcPrefix == <<97, 112, 112, 108, 105, 99, 97, 116, 105, 111, 110, 47, 103, 114, 112, 99>>

\* A comparison with the whole value in place of the prefix match.
from_content_type_exact(typ) == IF typ = GrpcPrefix THEN "Grpc" ELSE "Http"

from_content_type(typ) == IF StartsWith(typ, GrpcPrefix) THEN "Grpc" ELSE "Http"

ProtocolAsStr(p) == IF p = "Grpc" THEN "grpc" ELSE "http"

\* ------------------------------------------------------------------------
\* RequestId
\* ------------------------------------------------------------------------

RequestIdCapacity == 64

\* A copy that keeps one byte less than the capacity.
from_bytes_short(bytes) ==
    LET len == Min(RequestIdCapacity - 1, Len(bytes))
    IN  [buffer |-> [i \in 1..RequestIdCapacity |-> IF i <= len THEN bytes[i] ELSE 0],
         len |-> len % 256]

from_bytes(bytes) ==
    LET len == Min(RequestIdCapacity, Len(bytes))
    IN  [buffer |-> [i \in 1..RequestIdCapacity |-> IF i <= len THEN bytes[i] ELSE 0],
         len |-> len % 256]

\* Lower-case hexadecimal digit of a value 0..15.
LowerHex(d) == IF d < 10 THEN 48 + d ELSE 87 + d

\* uuid::fmt::Hyphenated::encode_lower: 8-4-4-4-12 lower-case hex of 32 digits.
EncodeLower(uuid) ==
    [i \in 1..36 |->
        IF i \in {9, 14, 19, 24} THEN 45
        ELSE LowerHex(uuid[i - Cardinality({j \in {9, 14, 19, 24} : j < i})])]

\* The whole buffer, zero padding included, taken as the id.
from_uuid_whole_buffer(uuid) ==
    LET text == EncodeLower(uuid)
    IN  [buffer |-> [i \in 1..RequestIdCapacity |-> IF i <= Len(text) THEN text[i] ELSE 0],
         len |-> RequestIdCapacity % 256]


from_uuid(uuid) ==
    LET text == EncodeLower(uuid)
        len == Len(text)
    IN  [buffer |-> [i \in 1..RequestIdCapacity |-> IF i <= len THEN text[i] ELSE 0],
         len |-> len % 256]

as_bytes(id) == SubSeq(id.buffer, 1, id.len)

as_str(id) == IF IsUtf8(as_bytes(id)) THEN Some(as_bytes(id)) ELSE None

\* ------------------------------------------------------------------------
\* gRPC status
\* ------------------------------------------------------------------------

\* A general decimal parse of one or two digits in place of the table.
parse_grpc_status_decimal(bytes) ==
    CASE Len(bytes) = 1 ->
            IF bytes[1] >= 48 /\ bytes[1] <= 57 THEN bytes[1] - 48 ELSE 2
      [] Len(bytes) = 2 ->
            IF bytes[1] >= 48 /\ bytes[1] <= 57 /\ bytes[2] >= 48 /\ bytes[2] <= 57
            THEN 10 * (bytes[1] - 48) + (bytes[2] - 48)
            ELSE 2
      [] OTHER -> 2

parse_grpc_status(bytes) ==
    CASE Len(bytes) = 1 ->
            IF bytes[1] >= 48 /\ bytes[1] <= 57 THEN bytes[1] - 48 ELSE 2
      [] Len(bytes) = 2 ->
            IF bytes[1] = 49 /\ bytes[2] >= 48 /\ bytes[2] <= 54
            THEN 10 + (bytes[2] - 48)
            ELSE 2
      [] OTHER -> 2

\* ------------------------------------------------------------------------
\* Span (tracing::Span as created by a make_request_spanner! factory)
\* ------------------------------------------------------------------------

\* The field set declared by the tracing::span! invocation of the macro.
DeclaredFields == {"http.request.method", "url.path", "url.query", "url.scheme",
                   "http.request_id", "user_agent.original", "http.headers",
                   "network.protocol.name", "network.protocol.version",
                   "client.address", "http.response.status_code", "error.message"}

\* make_span(): every declared field is field::Empty.  A field holds the
\* sequence of the values recorded on it, in order.
MakeSpan == [f \in DeclaredFields |-> <<>>]

\* Span::record: a value for a field outside the declared set is discarded.
SpanRecord(sp, field, value) ==
    IF field \in DOMAIN sp THEN [sp EXCEPT ![field] = Append(@, value)] ELSE sp

Ev(kind, arg) == [kind |-> kind, arg |-> arg]

\* A span together with the trace of the operations performed on it.
Enter(s) == [s EXCEPT !.log = Append(@, Ev("enter", ""))]

Exit(s) == [s EXCEPT !.log = Append(@, Ev("exit", ""))]

Record(s, field, value) ==
    [span |-> SpanRecord(s.span, field, value),
     log |-> Append(s.log, Ev("record", field))]

RecordIf(cond, s, field, value) == IF cond THEN Record(s, field, value) ELSE s

Note(s, kind) == [s EXCEPT !.log = Append(@, Ev(kind, ""))]

\* ------------------------------------------------------------------------
\* headers::InspectHeaders
\* ------------------------------------------------------------------------

\* "<non-utf8>"
FALLBACK_STR == <<60, 110, 111, 110, 45, 117, 116, 102, 56, 62>>

HeaderText(v) == IF IsVisibleAscii(v) THEN v ELSE FALLBACK_STR

\* impl Debug for DisplayHeaderValues: the values joined by " ,".
RECURSIVE DisplayHeaderValues(_)
DisplayHeaderValues(values) ==
    IF values = <<>> THEN <<>>
    ELSE IF Len(values) = 1 THEN HeaderText(values[1])
    ELSE DisplayHeaderValues(SubSeq(values, 1, Len(values) - 1))
            \o <<32, 44>> \o HeaderText(values[Len(values)])

\* impl Debug for InspectHeaders: one map entry per listed name that is present.
RECURSIVE InspectHeaders(_, _)
InspectHeaders(header_list, h) ==
    IF header_list = <<>> THEN <<>>
    ELSE LET key == header_list[1]
             rest == InspectHeaders(Tail(header_list), h)
         IN  IF h[key] # <<>>
             THEN <<[key |-> key, value |-> DisplayHeaderValues(h[key])]>> \o rest
             ELSE rest

\* ------------------------------------------------------------------------
\* RequestSpan::new
\* ------------------------------------------------------------------------

\* default_client_ip and a configured extractor.
ExtractClientIp(extract_client_ip, parts) ==
    IF extract_client_ip = "default" THEN None ELSE Some("127.0.0.1")

VersionField(version) ==
    CASE version = "HTTP/0.9" -> "0.9"
      [] version = "HTTP/1.0" -> "1.0"
      [] version = "HTTP/1.1" -> "1.1"
      [] version = "HTTP/2.0" -> "2"
      [] version = "HTTP/3.0" -> "3"
      [] OTHER -> "0"

RequestSpanNew(sp, extract_client_ip, parts, uuid) ==
    LET client_ip == ExtractClientIp(extract_client_ip, parts)
        content_type == HeaderGet(parts.headers, "content-type")
        protocol == IF content_type = None THEN "Http"
                    ELSE from_content_type(content_type[1])
        id_header == HeaderGet(parts.headers, REQUEST_ID)
        request_id == IF id_header # None THEN from_bytes(id_header[1])
                      ELSE from_uuid(uuid)
        user_agent == HeaderGet(parts.headers, "user-agent")
        s0 == Enter([span |-> sp, log |-> <<>>])
        s1 == RecordIf(user_agent # None /\ IsVisibleAscii(user_agent[1]),
                       s0, "user_agent.original", user_agent[1])
        s2 == Record(s1, "http.request.method", parts.method)
        s3 == Record(s2, "url.path", parts.path)
        s4 == RecordIf(parts.query # None, s3, "url.query", parts.query[1])
        s5 == RecordIf(parts.scheme # None, s4, "url.scheme", parts.scheme[1])
        s6 == IF as_str(request_id) # None
              THEN Record(s5, "http.request_id", [text |-> TRUE, bytes |-> as_str(request_id)[1]])
              ELSE Record(s5, "http.request_id", [text |-> FALSE, bytes |-> as_bytes(request_id)])
        s7 == RecordIf(client_ip # None, s6, "client.address", client_ip[1])
        s8 == Record(s7, "network.protocol.name", ProtocolAsStr(protocol))
        s9 == RecordIf(protocol = "Http", s8, "network.protocol.version",
                       VersionField(parts.version))
        s10 == Exit(s9)
    IN  [span |-> s10.span,
         log |-> s10.log,
         info |-> [protocol |-> protocol, request_id |-> request_id, client_ip |-> client_ip]]

\* ------------------------------------------------------------------------
\* Inputs: layers, requests, responses of the inner service, errors, uuids
\* ------------------------------------------------------------------------

\* HttpRequestLayer::new(make_span) and a layer configured with
\* with_inspect_headers and with_extract_client_ip.
Layers == {[inspect_headers |-> <<>>, extract_client_ip |-> "default"],
           [inspect_headers |-> <<"forwarded", "user-agent">>, extract_client_ip |-> "fixed"]}

Bytes(n, first) == [i \in 1..n |-> first + (i % 10)]

IdRequestID == <<114, 101, 113, 117, 101, 115, 116, 45, 73, 68>>

IdInner == <<105, 110, 110, 101, 114, 45, 105, 100>>

IdInner2 == <<105, 110, 110, 101, 114, 45, 50>>

\* 63 ASCII bytes followed by the two-byte encoding of U+00E9: cut at 64
\* bytes the text is no longer UTF-8.
IdSplit == Bytes(63, 97) \o <<195, 169>>

\* Values of the inbound x-request-id header (all valid header values).
WideIds == {<<>>, <<<<>>>>, <<IdRequestID>>, <<IdRequestID, IdInner>>,
            <<Bytes(63, 65)>>, <<Bytes(64, 65)>>, <<Bytes(65, 65)>>,
            <<Bytes(70, 48)>>, <<IdSplit>>, <<<<9, 32, 200, 255>>>>}

CtJson == <<97, 112, 112, 108, 105, 99, 97, 116, 105, 111, 110, 47, 106, 115, 111, 110>>

CtGrpcProto == <<97, 112, 112, 108, 105, 99, 97, 116, 105, 111, 110, 47, 103, 114, 112, 99, 43, 112, 114, 111, 116, 111>>

CtGrp == <<97, 112, 112, 108, 105, 99, 97, 116, 105, 111, 110, 47, 103, 114, 112>>

CtUpper == <<65, 112, 112, 108, 105, 99, 97, 116, 105, 111, 110, 47, 103, 114, 112, 99>>

WideContentTypes == {<<>>, <<GrpcPrefix>>, <<CtGrpcProto>>, <<CtJson>>, <<CtGrp>>,
                     <<CtUpper>>, <<CtJson, GrpcPrefix>>}

UserAgent == <<99, 117, 114, 108, 47, 56>>

MkRequest(content_type, request_id, user_agent, query, scheme, version) ==
    [method |-> "GET", path |-> "/index.html", query |-> query, scheme |-> scheme,
     version |-> version,
     headers |-> [EmptyHeaders EXCEPT !["content-type"] = content_type,
                                      !["x-request-id"] = request_id,
                                      !["user-agent"] = user_agent],
     extensions |-> None]

SmallRequests ==
    {MkRequest(<<CtJson>>, <<IdRequestID>>, <<UserAgent>>, Some("a=1"), Some("http"), "HTTP/1.1"),
     MkRequest(<<GrpcPrefix>>, <<>>, <<>>, None, None, "HTTP/2.0")}

WideRequests ==
    {MkRequest(ct, <<IdRequestID>>, <<UserAgent>>, None, Some("http"), "HTTP/1.1") :
        ct \in WideContentTypes}
    \cup {MkRequest(ct, id, <<>>, None, None, "HTTP/2.0") :
        ct \in {<<CtJson>>, <<GrpcPrefix>>}, id \in WideIds}
    \cup {MkRequest(<<>>, <<IdRequestID>>, <<<<99, 200>>, UserAgent>>, Some("a=1"), None, v) :
        v \in {"HTTP/0.9", "HTTP/1.0", "HTTP/3.0", "HTTP/4.0"}}

\* Values of the grpc-status header of a response: the decimal texts of
\* 0..16 and byte patterns outside the table.
GrpcStatusValues ==
    {<<48>>,
     <<49>>,
     <<50>>,
     <<51>>,
     <<52>>,
     <<53>>,
     <<54>>,
     <<55>>,
     <<56>>,
     <<57>>,
     <<49, 48>>,
     <<49, 49>>,
     <<49, 50>>,
     <<49, 51>>,
     <<49, 52>>,
     <<49, 53>>,
     <<49, 54>>,
     <<57, 57>>,
     <<>>,
     <<48, 48>>,
     <<48, 55>>,
     <<49, 55>>,
     <<120>>,
     <<49, 120>>,
     <<49, 48, 48>>,
     <<45, 49>>}

MkResponse(status, request_id, grpc_status) ==
    [status |-> status,
     headers |-> [EmptyHeaders EXCEPT !["x-request-id"] = request_id,
                                      !["grpc-status"] = grpc_status,
                                      !["content-length"] = <<<<52>>>>],
     body |-> "body"]

SmallResponses == {MkResponse(404, <<IdInner>>, <<<<53>>>>)}

WideResponses ==
    {MkResponse(st, id, gs) : st \in {200, 503}, id \in {<<>>, <<IdInner>>, <<IdInner, IdInner2>>},
                              gs \in {<<>>, <<<<48>>>>, <<<<55>>, <<48>>>>}}
    \cup {MkResponse(200, <<>>, <<gs>>) : gs \in GrpcStatusValues}

\* Errors of the inner service: the type name of E and the Display text.
Errors == {[type |-> "std::io::Error", message |-> "connection reset"],
           [type |-> "app::Timeout", message |-> "deadline elapsed"]}

SmallErrors == {[type |-> "std::io::Error", message |-> "connection reset"]}

\* Values of uuid::Uuid::new_v4(), as 32 hexadecimal digits.
Uuids == {<<6, 7, 14, 5, 5, 0, 4, 4, 1, 0, 11, 1, 4, 2, 6, 15,
            9, 2, 4, 7, 11, 11, 6, 8, 0, 14, 5, 15, 14, 0, 12, 8>>,
          <<0, 0, 0, 0, 0, 0, 0, 0, 0, 0, 0, 0, 4, 0, 0, 0,
            8, 0, 0, 0, 0, 0, 0, 0, 0, 0, 0, 0, 0, 0, 0, 0>>}

SmallUuids == {<<6, 7, 14, 5, 5, 0, 4, 4, 1, 0, 11, 1, 4, 2, 6, 15,
                 9, 2, 4, 7, 11, 11, 6, 8, 0, 14, 5, 15, 14, 0, 12, 8>>}

\* ------------------------------------------------------------------------
\* State of the middleware
\* ------------------------------------------------------------------------

NoResp == [status |-> 0, headers |-> EmptyHeaders, body |-> ""]

NoError == [type |-> "", message |-> ""]

NoRequest == MkRequest(<<>>, <<>>, <<>>, None, None, "")

\* A value of Poll<Result<Response, E>>; kind is "None" before the first poll.
Res(kind, resp, error) == [kind |-> kind, resp |-> resp, error |-> error]

NoRes == Res("None", NoResp, NoError)

InitMw ==
    /\ layer \in Layers
    /\ phase = [r \in Futs |-> "idle"]
    /\ polls = [r \in Futs |-> 0]
    /\ held = [r \in Futs |-> FALSE]
    /\ fut = [r \in Futs |-> [protocol |-> "Http", request_id |-> from_bytes(<<>>)]]
    /\ span = [r \in Futs |-> MakeSpan]
    /\ log = [r \in Futs |-> <<>>]
    /\ handler = [r \in Futs |-> NoRequest]
    /\ innerOut = [r \in Futs |-> NoRes]
    /\ out = [r \in Futs |-> NoRes]

\* ------------------------------------------------------------------------
\* HttpRequestService::call
\* ------------------------------------------------------------------------

\* call with the inner service called before http.headers is recorded and
\* before the RequestInfo is inserted into the extensions.
CallInnerFirst(r, req, uuid) ==
    /\ phase[r] = "idle"
    /\ LET rs == RequestSpanNew(MakeSpan, layer.extract_client_ip, req, uuid)
           s0 == Enter([span |-> rs.span, log |-> rs.log])
           s1 == Note(s0, "inner.call")
           s2 == RecordIf(layer.inspect_headers # <<>>, s1, "http.headers",
                          InspectHeaders(layer.inspect_headers, req.headers))
           s3 == Exit(s2)
       IN  /\ handler' = [handler EXCEPT ![r] = req]
           /\ span' = [span EXCEPT ![r] = s3.span]
           /\ log' = [log EXCEPT ![r] = s3.log]
           /\ fut' = [fut EXCEPT ![r] = [protocol |-> rs.info.protocol,
                                         request_id |-> rs.info.request_id]]
    /\ phase' = [phase EXCEPT ![r] = "pending"]
    /\ held' = [held EXCEPT ![r] = TRUE]
    /\ UNCHANGED <<layer, polls, innerOut, out, propVars>>

Call(r, req, uuid) ==
    /\ phase[r] = "idle"
    /\ LET rs == RequestSpanNew(MakeSpan, layer.extract_client_ip, req, uuid)
           s0 == Enter([span |-> rs.span, log |-> rs.log])
           s1 == RecordIf(layer.inspect_headers # <<>>, s0, "http.headers",
                          InspectHeaders(layer.inspect_headers, req.headers))
           request_id == rs.info.request_id
           protocol == rs.info.protocol
           req2 == [req EXCEPT !.extensions = Some(rs.info)]
           s2 == Note(s1, "inner.call")
           s3 == Exit(s2)
       IN  /\ handler' = [handler EXCEPT ![r] = req2]
           /\ span' = [span EXCEPT ![r] = s3.span]
           /\ log' = [log EXCEPT ![r] = s3.log]
           /\ fut' = [fut EXCEPT ![r] = [protocol |-> protocol, request_id |-> request_id]]
    /\ phase' = [phase EXCEPT ![r] = "pending"]
    /\ held' = [held EXCEPT ![r] = TRUE]
    /\ UNCHANGED <<layer, polls, innerOut, out, propVars>>

\* ------------------------------------------------------------------------
\* ResponseFut::poll
\* ------------------------------------------------------------------------

\* The response with the request id attached, when it is a valid header value.
AttachRequestId(resp, request_id) ==
    IF IsValidHeaderValue(as_bytes(request_id))
    THEN [resp EXCEPT !.headers = HeaderInsert(@, REQUEST_ID, as_bytes(request_id))]
    ELSE resp

OkStatus(protocol, resp) ==
    IF protocol = "Http" THEN resp.status
    ELSE IF HeaderGet(resp.headers, "grpc-status") # None
         THEN parse_grpc_status(HeaderGet(resp.headers, "grpc-status")[1])
         ELSE 2

\* The HTTP fallback status used for both protocols.
ErrStatusHttpOnly(protocol) == 500

ErrStatus(protocol) == IF protocol = "Http" THEN 500 ELSE 13

\* Poll with the status also recorded while the inner future is pending.
PollRecordingPending(f, s, inner) ==
    LET s0 == Note(Enter(s), "inner.poll")
    IN  CASE inner.kind = "Ok" ->
                LET resp == AttachRequestId(inner.resp, f.request_id)
                    s1 == Record(s0, "http.response.status_code", OkStatus(f.protocol, resp))
                IN  [s |-> Exit(s1), out |-> Res("Ok", resp, NoError)]
          [] inner.kind = "Err" ->
                LET s1 == Record(s0, "http.response.status_code", ErrStatus(f.protocol))
                    s2 == Record(s1, "error.type", inner.error.type)
                    s3 == Record(s2, "error.message", inner.error.message)
                IN  [s |-> Exit(s3), out |-> Res("Err", NoResp, inner.error)]
          [] OTHER -> [s |-> Exit(Record(s0, "http.response.status_code", 0)),
                       out |-> Res("Pending", NoResp, NoError)]

\* Poll with the span left entered when the inner future is pending.
PollHoldingSpan(f, s, inner) ==
    LET s0 == Note(Enter(s), "inner.poll")
    IN  CASE inner.kind = "Ok" ->
                LET resp == AttachRequestId(inner.resp, f.request_id)
                    s1 == Record(s0, "http.response.status_code", OkStatus(f.protocol, resp))
                IN  [s |-> Exit(s1), out |-> Res("Ok", resp, NoError)]
          [] inner.kind = "Err" ->
                LET s1 == Record(s0, "http.response.status_code", ErrStatus(f.protocol))
                    s2 == Record(s1, "error.type", inner.error.type)
                    s3 == Record(s2, "error.message", inner.error.message)
                IN  [s |-> Exit(s3), out |-> Res("Err", NoResp, inner.error)]
          [] OTHER -> [s |-> s0, out |-> Res("Pending", NoResp, NoError)]

\* One poll of the future f with span state s, the inner future yielding inner.
Poll(f, s, inner) ==
    LET s0 == Note(Enter(s), "inner.poll")
    IN  CASE inner.kind = "Ok" ->
                LET resp == AttachRequestId(inner.resp, f.request_id)
                    s1 == Record(s0, "http.response.status_code", OkStatus(f.protocol, resp))
                IN  [s |-> Exit(s1), out |-> Res("Ok", resp, NoError)]
          [] inner.kind = "Err" ->
                LET s1 == Record(s0, "http.response.status_code", ErrStatus(f.protocol))
                    s2 == Record(s1, "error.type", inner.error.type)
                    s3 == Record(s2, "error.message", inner.error.message)
                IN  [s |-> Exit(s3), out |-> Res("Err", NoResp, inner.error)]
          [] OTHER -> [s |-> Exit(s0), out |-> Res("Pending", NoResp, NoError)]

PollStep(r, inner) ==
    LET p == Poll(fut[r], [span |-> span[r], log |-> log[r]], inner)
    IN  /\ span' = [span EXCEPT ![r] = p.s.span]
        /\ log' = [log EXCEPT ![r] = p.s.log]
        /\ out' = [out EXCEPT ![r] = p.out]
        /\ innerOut' = [innerOut EXCEPT ![r] = inner]

\* The inner future is not ready.
PollPending(r) ==
    /\ phase[r] = "pending" /\ held[r]
    /\ polls[r] < MaxPolls
    /\ PollStep(r, Res("Pending", NoResp, NoError))
    /\ polls' = [polls EXCEPT ![r] = @ + 1]
    /\ UNCHANGED <<layer, phase, held, fut, handler, propVars>>

\* The inner future resolves with Ok(resp).
PollOk(r, resp) ==
    /\ phase[r] = "pending" /\ held[r]
    /\ PollStep(r, Res("Ok", resp, NoError))
    /\ phase' = [phase EXCEPT ![r] = "ready"]
    /\ UNCHANGED <<layer, polls, held, fut, handler, propVars>>

\* The inner future resolves with Err(error).
PollErr(r, error) ==
    /\ phase[r] = "pending" /\ held[r]
    /\ PollStep(r, Res("Err", NoResp, error))
    /\ phase' = [phase EXCEPT ![r] = "ready"]
    /\ UNCHANGED <<layer, polls, held, fut, handler, propVars>>

\* A drop that records a cancellation status before releasing the span.
DropRecordingStatus(r) ==
    /\ phase[r] # "idle" /\ held[r]
    /\ held' = [held EXCEPT ![r] = FALSE]
    /\ span' = [span EXCEPT ![r] =
                    IF phase[r] = "pending"
                    THEN SpanRecord(@, "http.response.status_code", 499)
                    ELSE @]
    /\ UNCHANGED <<layer, phase, polls, fut, log, handler, innerOut, out, propVars>>

\* The ResponseFut is dropped: its fields, the span among them, are released.
Drop(r) ==
    /\ phase[r] # "idle" /\ held[r]
    /\ held' = [held EXCEPT ![r] = FALSE]
    /\ UNCHANGED <<layer, phase, polls, fut, span, log, handler, innerOut, out, propVars>>

\* ------------------------------------------------------------------------
\* datadog::Propagation (W3C traceparent)
\* ------------------------------------------------------------------------

W3C_TRACEPARENT_NAME == "traceparent"

W3C_VERSION == 0

TRACE_SAMPLED_FLAG == 1

\* DatadogContext::default()
DefaultContext == [trace_id |-> <<>>, parent_id |-> <<>>]

\* The hexadecimal digits of an integer, most significant first (<<>> for 0).
RECURSIVE ToDigits(_)
ToDigits(n) == IF n = 0 THEN <<>> ELSE Append(ToDigits(n \div 16), n % 16)

RECURSIVE ToInt(_)
ToInt(digits) ==
    IF digits = <<>> THEN 0
    ELSE 16 * ToInt(SubSeq(digits, 1, Len(digits) - 1)) + digits[Len(digits)]

\* Lower-case hex without the zero padding.
FormatHexUnpadded(digits, width) == [i \in 1..Len(digits) |-> LowerHex(digits[i])]

\* format!("{:0width$x}"): lower-case hex, zero-padded to at least width.
FormatHex(digits, width) ==
    LET pad == IF Len(digits) < width THEN width - Len(digits) ELSE 0
    IN  [i \in 1..(pad + Len(digits)) |-> IF i <= pad THEN 48 ELSE LowerHex(digits[i - pad])]

\* The parent id written before the trace id.
FormatTraceparentSwapped(context) ==
    FormatHex(ToDigits(W3C_VERSION), 2) \o <<45>>
        \o FormatHex(context.parent_id, 16) \o <<45>>
        \o FormatHex(context.trace_id, 32) \o <<45>>
        \o FormatHex(ToDigits(TRACE_SAMPLED_FLAG), 2)

\* write!(out, "{W3C_VERSION:02x}-{trace_id:032x}-{parent_id:016x}-{TRACE_SAMPLED_FLAG:02x}")
FormatTraceparent(context) ==
    FormatHex(ToDigits(W3C_VERSION), 2) \o <<45>>
        \o FormatHex(context.trace_id, 32) \o <<45>>
        \o FormatHex(context.parent_id, 16) \o <<45>>
        \o FormatHex(ToDigits(TRACE_SAMPLED_FLAG), 2)

\* inject without the check for the sentinel trace id.
inject_unchecked(h, context) ==
    HeaderInsert(h, W3C_TRACEPARENT_NAME, FormatTraceparent(context))

inject(h, context) ==
    IF context.trace_id = <<>> THEN h
    ELSE HeaderInsert(h, W3C_TRACEPARENT_NAME, FormatTraceparent(context))

\* str::split: the groups of text between occurrences of sep.
RECURSIVE Split(_, _)
Split(text, sep) ==
    IF \E i \in 1..Len(text) : text[i] = sep
    THEN LET i == CHOOSE i \in 1..Len(text) :
                    text[i] = sep /\ \A j \in 1..(i - 1) : text[j] # sep
         IN  <<SubSeq(text, 1, i - 1)>> \o Split(SubSeq(text, i + 1, Len(text)), sep)
    ELSE <<text>>

\* char::to_digit(16)
HexDigit(c) ==
    IF c >= 48 /\ c <= 57 THEN Some(c - 48)
    ELSE IF c >= 97 /\ c <= 102 THEN Some(c - 87)
    ELSE IF c >= 65 /\ c <= 70 THEN Some(c - 55)
    ELSE None

RECURSIVE StripZeros(_)
StripZeros(digits) ==
    IF digits # <<>> /\ digits[1] = 0 THEN StripZeros(Tail(digits)) ELSE digits

\* uN::from_str_radix(src, 16) for an unsigned type of 4 * width bits:
\* Some(value) or None for Empty, InvalidDigit and PosOverflow.
from_str_radix(src, width) ==
    IF src = <<>> THEN None
    ELSE IF src = <<43>> \/ src = <<45>> THEN None
    ELSE LET text == IF src[1] = 43 THEN Tail(src) ELSE src
         IN  IF \E i \in 1..Len(text) : HexDigit(text[i]) = None THEN None
             ELSE LET value == StripZeros([i \in 1..Len(text) |-> HexDigit(text[i])[1]])
                  IN  IF Len(value) > width THEN None ELSE Some(value)

\* extract without the check of the sampled flag.
extract_any_flag(h) ==
    LET value == HeaderGet(h, W3C_TRACEPARENT_NAME)
    IN  IF value = None \/ ~IsVisibleAscii(value[1]) THEN DefaultContext
        ELSE LET parts == Split(value[1], 45)
             IN  IF Len(parts) < 4 THEN DefaultContext
                 ELSE LET version == from_str_radix(parts[1], 2)
                          trace_id == from_str_radix(parts[2], 32)
                          parent_id == from_str_radix(parts[3], 16)
                      IN  IF version = None \/ ToInt(version[1]) # W3C_VERSION
                          THEN DefaultContext
                          ELSE IF trace_id # None /\ parent_id # None
                          THEN [trace_id |-> trace_id[1], parent_id |-> parent_id[1]]
                          ELSE DefaultContext

extract(h) ==
    LET value == HeaderGet(h, W3C_TRACEPARENT_NAME)
    IN  IF value = None \/ ~IsVisibleAscii(value[1]) THEN DefaultContext
        ELSE LET parts == Split(value[1], 45)
             IN  IF Len(parts) < 4 THEN DefaultContext
                 ELSE LET version == from_str_radix(parts[1], 2)
                          trace_flag == from_str_radix(parts[4], 2)
                          trace_id == from_str_radix(parts[2], 32)
                          parent_id == from_str_radix(parts[3], 16)
                      IN  IF version = None \/ ToInt(version[1]) # W3C_VERSION
                          THEN DefaultContext
                          ELSE IF trace_flag = None
                                  \/ ToInt(trace_flag[1]) % (2 * TRACE_SAMPLED_FLAG)
                                        < TRACE_SAMPLED_FLAG
                          THEN DefaultContext
                          ELSE IF trace_id # None /\ parent_id # None
                          THEN [trace_id |-> trace_id[1], parent_id |-> parent_id[1]]
                          ELSE DefaultContext

\* ------------------------------------------------------------------------
\* Inputs of the propagation strategy
\* ------------------------------------------------------------------------

\* Texts of the version group.
VersionGroups ==
    <<<<48, 48>>,
      <<48, 49>>,
      <<48>>,
      <<43, 48>>,
      <<48, 48, 48>>,
      <<102, 102>>,
      <<103, 103>>,
      <<>>>>

\* Texts of the trace-id group.
TraceGroups ==
    <<<<48, 48, 48, 48, 48, 48, 48, 48, 48, 48, 48, 48, 48, 48, 48, 102, 102, 102, 48, 48, 48, 49, 49, 49, 49, 48, 48, 48, 50, 50, 50, 50>>,
      <<48, 48, 48, 48, 48, 48, 48, 48, 48, 48, 48, 48, 48, 48, 48, 48, 48, 48, 48, 48, 48, 48, 48, 48, 48, 48, 48, 48, 48, 48, 48, 48>>,
      <<49>>,
      <<65, 66, 67, 68, 69, 70>>,
      <<43, 49, 102>>,
      <<49, 48, 48, 48, 48, 48, 48, 48, 48, 48, 48, 48, 48, 48, 48, 48, 48, 48, 48, 48, 48, 48, 48, 48, 48, 48, 48, 48, 48, 48, 48, 48, 48>>,
      <<48, 102, 102, 102, 102, 102, 102, 102, 102, 102, 102, 102, 102, 102, 102, 102, 102, 102, 102, 102, 102, 102, 102, 102, 102, 102, 102, 102, 102, 102, 102, 102, 102>>,
      <<120, 121, 122>>,
      <<>>,
      <<102, 102, 102, 102, 102, 102, 102, 102, 102, 102, 102, 102, 102, 102, 102, 102, 102, 102, 102, 102, 102, 102, 102, 102, 102, 102, 102, 102, 102, 102, 102, 102>>>>

\* Texts of the parent-id group.
ParentGroups ==
    <<<<48, 51, 51, 51, 48, 48, 48, 52, 52, 52, 48, 48, 48, 53, 53, 53>>,
      <<48, 48, 48, 48, 48, 48, 48, 48, 48, 48, 48, 48, 48, 48, 48, 48>>,
      <<49>>,
      <<49, 48, 48, 48, 48, 48, 48, 48, 48, 48, 48, 48, 48, 48, 48, 48, 48>>,
      <<48, 120, 49, 48>>,
      <<>>,
      <<70, 70, 70, 70, 70, 70, 70, 70, 70, 70, 70, 70, 70, 70, 70, 70>>>>

\* Texts of the flags group.
FlagGroups ==
    <<<<48, 49>>,
      <<49, 48>>,
      <<48, 48>>,
      <<48, 51>>,
      <<102, 102>>,
      <<102, 101>>,
      <<122, 122>>,
      <<>>,
      <<49>>,
      <<43, 49>>,
      <<49, 48, 49>>,
      <<43>>>>

Traceparent(v, t, p, f) == v \o <<45>> \o t \o <<45>> \o p \o <<45>> \o f

Range(s) == {s[i] : i \in DOMAIN s}

Valid == Traceparent(VersionGroups[1], TraceGroups[1], ParentGroups[1], FlagGroups[1])

\* Header values: one group varied from a valid header, a cross of valid and
\* invalid groups, other group counts, and bytes that are not text.
TraceparentValues ==
    {Traceparent(v, TraceGroups[1], ParentGroups[1], FlagGroups[1]) : v \in Range(VersionGroups)}
    \cup {Traceparent(VersionGroups[1], t, ParentGroups[1], FlagGroups[1]) : t \in Range(TraceGroups)}
    \cup {Traceparent(VersionGroups[1], TraceGroups[1], p, FlagGroups[1]) : p \in Range(ParentGroups)}
    \cup {Traceparent(VersionGroups[1], TraceGroups[1], ParentGroups[1], f) : f \in Range(FlagGroups)}
    \cup {Traceparent(VersionGroups[i], TraceGroups[j], ParentGroups[k], FlagGroups[l]) :
            i \in {1, 2}, j \in {1, 2, 3, 8}, k \in {1, 2, 5}, l \in {1, 2, 4, 7}}
    \cup {Valid \o <<45>> \o <<101, 120, 116, 114, 97>>, Valid \o <<45>>,
          <<48, 48, 45, 49, 45, 49>>, <<48, 48>>, <<>>, <<45, 45, 45>>,
          SubSeq(Valid, 1, 20) \o <<200>> \o SubSeq(Valid, 22, Len(Valid))}

PropHeaderMaps ==
    {[EmptyHeaders EXCEPT !["traceparent"] = tp, !["forwarded"] = other] :
        tp \in {<<>>} \cup {<<v>> : v \in TraceparentValues}
                \cup {<<Valid, <<48, 48>>>>, <<<<48, 48>>, Valid>>},
        other \in {<<>>, <<<<102, 111, 114, 61, 49>>>>}}

\* Identifiers as hexadecimal digits: 0, 1, the identifiers of the test,
\* a value with trailing zero digits, and the largest value of the type.
TraceIds == {<<>>, <<1>>, <<15, 15, 15, 0, 0, 0, 1, 1, 1, 1, 0, 0, 0, 2, 2, 2, 2>>,
             <<8>> \o [i \in 1..31 |-> 0], [i \in 1..32 |-> 15]}

ParentIds == {<<>>, <<1>>, <<3, 3, 3, 0, 0, 0, 4, 4, 4, 0, 0, 0, 5, 5, 5>>,
              [i \in 1..16 |-> 15]}

Contexts == {[trace_id |-> t, parent_id |-> p] : t \in TraceIds, p \in ParentIds}

\* ------------------------------------------------------------------------
\* State of the propagation strategy
\* ------------------------------------------------------------------------

InitProp ==
    /\ headers = EmptyHeaders
    /\ before = EmptyHeaders
    /\ op = "init"
    /\ ctxIn = None
    /\ ctxOut = None

\* Propagation::inject(&mut headers, context)
Inject(context) ==
    /\ before' = headers
    /\ headers' = inject(headers, context)
    /\ ctxIn' = Some(context)
    /\ ctxOut' = None
    /\ op' = "inject"
    /\ UNCHANGED mwVars

\* Propagation::extract(&headers)
Extract ==
    /\ op # "extract"
    /\ ctxOut' = Some(extract(headers))
    /\ op' = "extract"
    /\ UNCHANGED <<headers, before, ctxIn, mwVars>>

\* ------------------------------------------------------------------------
\* Specifications
\* ------------------------------------------------------------------------

\* Concurrent requests through one HttpRequestService.
Init == InitMw /\ InitProp

Next ==
    \E r \in Futs :
        \/ \E req \in SmallRequests, uuid \in SmallUuids : Call(r, req, uuid)
        \/ PollPending(r)
        \/ \E resp \in SmallResponses : PollOk(r, resp)
        \/ \E error \in SmallErrors : PollErr(r, error)
        \/ Drop(r)

Spec == Init /\ [][Next]_vars

\* One request, over the wide sets of requests and responses.
NextWide ==
    \/ \E req \in WideRequests, uuid \in Uuids : Call(1, req, uuid)
    \/ PollPending(1)
    \/ \E resp \in WideResponses : PollOk(1, resp)
    \/ \E error \in Errors : PollErr(1, error)
    \/ Drop(1)

SpecWide == Init /\ [][NextWide]_vars

\* The propagation strategy applied to a header map.
InitCodec ==
    /\ InitMw
    /\ layer = [inspect_headers |-> <<>>, extract_client_ip |-> "default"]
    /\ headers \in PropHeaderMaps
    /\ before = headers
    /\ op = "init"
    /\ ctxIn = None
    /\ ctxOut = None

NextCodec ==
    \/ \E context \in Contexts : Inject(context)
    \/ Extract

SpecCodec == InitCodec /\ [][NextCodec]_vars

\* ------------------------------------------------------------------------
\* Properties of the middleware
\* ------------------------------------------------------------------------

PostFields == {"http.response.status_code", "error.type", "error.message"}

PreFields == {"http.request.method", "url.path", "url.query", "url.scheme",
              "http.request_id", "user_agent.original", "http.headers",
              "network.protocol.name", "network.protocol.version", "client.address"}

\* The positions of the trace at which span.record was called for the field.
RecordCalls(lg, field) == {i \in DOMAIN lg : lg[i] = Ev("record", field)}

\* The positions of the trace at which the inner future was polled.
InnerPolls(lg) == {i \in DOMAIN lg : lg[i].kind = "inner.poll"}

\* The values the span holds for the field (none for an undeclared field).
Held(sp, field) == IF field \in DOMAIN sp THEN sp[field] ELSE <<>>

Populated(sp) == {f \in DOMAIN sp : sp[f] # <<>>}

\* C1: no post field is recorded before the inner future resolves, whatever
\* the number of polls that returned Pending; once it has resolved the status
\* has been recorded exactly once and, for an error, error.type and
\* error.message have each been recorded exactly once (not at all for Ok),
\* every such record call lying in the one poll that resolved the future.
C1_PostFieldsOnceAtResolution ==
    \A r \in Futs :
        /\ phase[r] \in {"idle", "pending"} =>
              \A f \in PostFields : RecordCalls(log[r], f) = {} /\ Held(span[r], f) = <<>>
        /\ phase[r] = "ready" =>
              /\ Cardinality(RecordCalls(log[r], "http.response.status_code")) = 1
              /\ Len(span[r]["http.response.status_code"]) = 1
              /\ \A f \in {"error.type", "error.message"} :
                    /\ Cardinality(RecordCalls(log[r], f))
                          = IF out[r].kind = "Err" THEN 1 ELSE 0
                    /\ Len(Held(span[r], f)) <= 1
              /\ Cardinality(InnerPolls(log[r])) = polls[r] + 1
              /\ \A f \in PostFields : \A i \in RecordCalls(log[r], f) :
                    \A j \in InnerPolls(log[r]) : j < i

C1_Witness ==
    /\ phase[1] = "ready" /\ out[1].kind = "Err" /\ polls[1] = MaxPolls
    /\ span[1]["http.response.status_code"] = <<500>>

\* C2: a ResponseFut dropped before its inner future resolved, after any
\* number of Pending polls, has released its span with no status and no
\* error field recorded on it: only pre-request fields are populated.
C2_DropBeforeResolution ==
    \A r \in Futs :
        (phase[r] = "pending" /\ ~held[r]) =>
            /\ \A f \in PostFields : Held(span[r], f) = <<>> /\ RecordCalls(log[r], f) = {}
            /\ Populated(span[r]) \subseteq PreFields
            /\ {"http.request.method", "url.path", "http.request_id",
                "network.protocol.name"} \subseteq Populated(span[r])
            /\ out[r].kind \in {"None", "Pending"}

C2_Witness ==
    /\ phase[1] = "pending" /\ ~held[1] /\ polls[1] = MaxPolls
    /\ out[1].kind = "Pending"

C2_WitnessNoPoll == phase[1] = "pending" /\ ~held[1] /\ polls[1] = 0

\* C3: when the inner future resolves with an error the status recorded is
\* 500 for Http and 13 for Grpc, and the poll returns Ready(Err) with the
\* error the inner future produced and no response.
C3_ErrorPropagated ==
    \A r \in Futs :
        (phase[r] = "ready" /\ innerOut[r].kind = "Err") =>
            /\ span[r]["http.response.status_code"]
                  = <<IF fut[r].protocol = "Grpc" THEN 13 ELSE 500>>
            /\ out[r].kind = "Err"
            /\ out[r].error = innerOut[r].error
            /\ out[r].resp = NoResp

C3_Witness ==
    /\ phase[1] = "ready" /\ innerOut[1].kind = "Err"
    /\ fut[1].protocol = "Grpc"
    /\ span[1]["http.response.status_code"] = <<13>>
    /\ out[1].error \in Errors

\* C4: every field the middleware records is a declared field of the span,
\* so that after an error resolution the span holds a non-empty error.type,
\* a non-empty error.message and, for Http, status 500.
C4_RecordedFieldsDeclared ==
    \A r \in Futs :
        /\ \A i \in DOMAIN log[r] :
              log[r][i].kind = "record" => log[r][i].arg \in DOMAIN span[r]
        /\ (phase[r] = "ready" /\ out[r].kind = "Err") =>
              /\ Held(span[r], "error.type") # <<>>
              /\ Held(span[r], "error.type") # <<"">>
              /\ Held(span[r], "error.message") # <<>>
              /\ Held(span[r], "error.message") # <<"">>
              /\ fut[r].protocol = "Http" => span[r]["http.response.status_code"] = <<500>>

\* The decimal text of n in 0..99.
DecimalText(n) == IF n < 10 THEN <<48 + n>> ELSE <<48 + (n \div 10), 48 + (n % 10)>>

\* C5: on Ok(response) the status recorded is the response's status code for
\* Http; for Grpc it is n when the grpc-status header is the decimal text of
\* an n in 0..16, and 2 for any other value and for an absent header.
C5_OkStatus ==
    \A r \in Futs :
        (phase[r] = "ready" /\ innerOut[r].kind = "Ok") =>
            LET resp == innerOut[r].resp
                grpc == resp.headers["grpc-status"]
                codes == {n \in 0..16 : grpc # <<>> /\ grpc[1] = DecimalText(n)}
                expected == IF fut[r].protocol = "Http" THEN resp.status
                            ELSE IF codes = {} THEN 2
                            ELSE CHOOSE n \in codes : TRUE
            IN  span[r]["http.response.status_code"] = <<expected>>

C5_Witness ==
    /\ phase[1] = "ready" /\ innerOut[1].kind = "Ok" /\ fut[1].protocol = "Grpc"
    /\ innerOut[1].resp.headers["grpc-status"] = <<DecimalText(16)>>
    /\ span[1]["http.response.status_code"] = <<16>>

\* The first min(64, len) bytes of a byte string.
Prefix64(b) == [i \in 1..(IF Len(b) < 64 THEN Len(b) ELSE 64) |-> b[i]]

\* C6: with an inbound x-request-id header b, the RequestId of the future and
\* of the RequestInfo given to the handler is the first min(64, len(b)) bytes
\* of b, and a successful resolution returns the inner response with exactly
\* one x-request-id value, equal to that prefix, in place of any value the
\* inner service set; status, body and the other headers are unchanged.
C6_RequestIdRoundTrip ==
    \A r \in Futs :
        (phase[r] # "idle" /\ handler[r].headers["x-request-id"] # <<>>) =>
            LET b == handler[r].headers["x-request-id"][1]
            IN  /\ as_bytes(fut[r].request_id) = Prefix64(b)
                /\ as_bytes(handler[r].extensions[1].request_id) = Prefix64(b)
                /\ (phase[r] = "ready" /\ innerOut[r].kind = "Ok") =>
                      /\ out[r].kind = "Ok"
                      /\ out[r].resp.headers["x-request-id"] = <<Prefix64(b)>>
                      /\ out[r].resp.status = innerOut[r].resp.status
                      /\ out[r].resp.body = innerOut[r].resp.body
                      /\ \A n \in HeaderNames \ {"x-request-id"} :
                            out[r].resp.headers[n] = innerOut[r].resp.headers[n]

C6_Witness ==
    /\ phase[1] = "ready" /\ innerOut[1].kind = "Ok"
    /\ handler[1].headers["x-request-id"] # <<>>
    /\ Len(handler[1].headers["x-request-id"][1]) = 70
    /\ Len(innerOut[1].resp.headers["x-request-id"]) = 2
    /\ Len(out[1].resp.headers["x-request-id"][1]) = 64

\* ------------------------------------------------------------------------
\* Properties of the propagation strategy
\* ------------------------------------------------------------------------

\* C7: extract on a header map on which a context with trace_id # 0 was
\* just injected returns exactly that context, whatever the map held before.
C7_InjectExtractRoundTrip ==
    (op = "extract" /\ ctxIn # None /\ ctxIn[1].trace_id # <<>>) => ctxOut[1] = ctxIn[1]

C7_Witness ==
    /\ op = "extract" /\ ctxIn # None
    /\ Len(ctxIn[1].trace_id) = 32 /\ ctxIn[1].parent_id = <<>>
    /\ before["traceparent"] # <<>> /\ before["traceparent"][1] # headers["traceparent"][1]
    /\ ctxOut[1] = ctxIn[1]

\* The groups of the first traceparent value of a header map, when it is text.
Groups(h) == Split(h["traceparent"][1], 45)

\* The text is no hexadecimal number of at most width digits.
Unparsable(text, width) == from_str_radix(text, width) = None

\* C8: extract returns the sentinel context when the traceparent header is
\* absent or not text, when the version group does not parse to 0, when the
\* flags group does not parse or has the sampled bit clear, and when the
\* trace-id or the parent-id group does not parse as hexadecimal.
C8_MalformedYieldsSentinel ==
    op = "extract" =>
        LET tp == headers["traceparent"]
            g == Groups(headers)
            rejected ==
                \/ tp = <<>>
                \/ ~IsVisibleAscii(tp[1])
                \/ Unparsable(g[1], 2)
                \/ ToInt(from_str_radix(g[1], 2)[1]) # 0
                \/ Len(g) >= 4 /\ Unparsable(g[4], 2)
                \/ Len(g) >= 4 /\ ToInt(from_str_radix(g[4], 2)[1]) % 2 = 0
                \/ Len(g) >= 2 /\ Unparsable(g[2], 32)
                \/ Len(g) >= 3 /\ Unparsable(g[3], 16)
        IN  rejected => ctxOut[1] = DefaultContext

\* The header of the test should_ensure_datadog_trace_not_sampled.
C8_Witness ==
    /\ op = "extract" /\ ctxIn = None
    /\ headers["traceparent"]
          = <<Traceparent(VersionGroups[1], TraceGroups[1], ParentGroups[1], FlagGroups[2])>>
    /\ ctxOut[1] = DefaultContext

\* C9: inject with a context whose trace_id is 0 leaves the header map as it
\* was: no traceparent is added and no header is changed or removed.
C9_InjectSentinelNoOp ==
    (op = "inject" /\ ctxIn[1].trace_id = <<>>) => headers = before

C9_Witness ==
    /\ op = "inject" /\ ctxIn[1].trace_id = <<>> /\ ctxIn[1].parent_id # <<>>
    /\ before["traceparent"] = <<>> /\ before["forwarded"] # <<>>
    /\ headers = before

IsLowerHex(c) == (c >= 48 /\ c <= 57) \/ (c >= 97 /\ c <= 102)

\* The number written by the hexadecimal digits text[from..to].
HexValue(text, from, to) == StripZeros([i \in 1..(to - from + 1) |-> HexDigit(text[from + i - 1])[1]])

\* C10: inject with trace_id # 0 leaves exactly one traceparent value and
\* every other header as it was; the value is 55 bytes: "00-", the trace id
\* as 32 zero-padded lower-case hex digits, "-", the parent id as 16
\* zero-padded lower-case hex digits, and "-01".
C10_InjectFormat ==
    (op = "inject" /\ ctxIn[1].trace_id # <<>>) =>
        /\ Len(headers["traceparent"]) = 1
        /\ \A n \in HeaderNames \ {"traceparent"} : headers[n] = before[n]
        /\ LET v == headers["traceparent"][1]
           IN  /\ Len(v) = 55
               /\ SubSeq(v, 1, 3) = <<48, 48, 45>>
               /\ v[36] = 45
               /\ SubSeq(v, 53, 55) = <<45, 48, 49>>
               /\ \A i \in (4..35) \cup (37..52) : IsLowerHex(v[i])
               /\ HexValue(v, 4, 35) = ctxIn[1].trace_id
               /\ HexValue(v, 37, 52) = ctxIn[1].parent_id

C10_Witness ==
    /\ op = "inject" /\ ctxIn[1].trace_id = <<1>> /\ ctxIn[1].parent_id = <<>>
    /\ Len(before["traceparent"]) = 2
    /\ headers["traceparent"] = <<<<48, 48, 45>> \o [i \in 1..31 |-> 48] \o <<49, 45>>
                                    \o [i \in 1..16 |-> 48] \o <<45, 48, 49>>>>

\* ------------------------------------------------------------------------
\* Properties of protocol detection
\* ------------------------------------------------------------------------

\* The first Content-Type value of the request begins with "application/grpc".
HasGrpcContentType(req) ==
    LET ct == req.headers["content-type"]
    IN  /\ ct # <<>>
        /\ Len(ct[1]) >= 16
        /\ \A i \in 1..16 : ct[1][i] = GrpcPrefix[i]

\* C11: a request is Grpc exactly when its Content-Type value starts with
\* the bytes "application/grpc" and Http otherwise, an absent header
\* included; network.protocol.name is recorded as "grpc" or "http"
\* accordingly, and network.protocol.version is recorded iff it is Http.
C11_ProtocolDetection ==
    \A r \in Futs :
        phase[r] # "idle" =>
            LET grpc == HasGrpcContentType(handler[r])
            IN  /\ fut[r].protocol = IF grpc THEN "Grpc" ELSE "Http"
                /\ handler[r].extensions[1].protocol = fut[r].protocol
                /\ span[r]["network.protocol.name"] = <<IF grpc THEN "grpc" ELSE "http">>
                /\ (span[r]["network.protocol.version"] # <<>>) <=> ~grpc
                /\ Len(span[r]["network.protocol.version"]) <= 1

C11_Witness ==
    /\ phase[1] # "idle"
    /\ handler[1].headers["content-type"] = <<CtGrpcProto>>
    /\ fut[1].protocol = "Grpc"
    /\ span[1]["network.protocol.name"] = <<"grpc">>
    /\ span[1]["network.protocol.version"] = <<>>

C11_WitnessHttp ==
    /\ phase[1] # "idle"
    /\ handler[1].headers["content-type"] = <<CtGrp>>
    /\ fut[1].protocol = "Http"
    /\ span[1]["network.protocol.version"] = <<"1.1">>

\* ------------------------------------------------------------------------
\* Properties of the span scope
\* ------------------------------------------------------------------------

\* The number of times the span is entered and not exited after i operations.
Depth(lg, i) ==
    Cardinality({k \in 1..i : lg[k].kind = "enter"})
        - Cardinality({k \in 1..i : lg[k].kind = "exit"})

\* C12: whatever the interleaving of the polls of concurrent requests, each
\* poll enters the span of its own request, advances the inner future once
\* and exits the span before it returns: the span is entered immediately
\* before each advance of the inner future, never twice, and no span is left
\* entered between polls.
C12_SpanScopePerPoll ==
    \A r \in Futs :
        LET lg == log[r]
        IN  /\ \A i \in 0..Len(lg) : Depth(lg, i) \in {0, 1}
            /\ Depth(lg, Len(lg)) = 0
            /\ Cardinality(InnerPolls(lg))
                  = polls[r] + (IF phase[r] = "ready" THEN 1 ELSE 0)
            /\ \A i \in InnerPolls(lg) :
                  /\ lg[i - 1].kind = "enter"
                  /\ Depth(lg, i) = 1
                  /\ \A j \in InnerPolls(lg) :
                        i < j => \E k \in (i + 1)..(j - 1) : lg[k].kind = "exit"
            /\ \A i \in DOMAIN lg :
                  (lg[i].kind = "enter" /\ \E c \in 1..(i - 1) : lg[c].kind = "inner.call")
                      => lg[i + 1].kind = "inner.poll"

C12_Witness ==
    /\ phase[1] = "pending" /\ polls[1] = MaxPolls /\ held[1]
    /\ phase[2] = "ready" /\ polls[2] >= 1 /\ held[2]
    /\ \A r \in {1, 2} : Depth(log[r], Len(log[r])) = 0

\* ------------------------------------------------------------------------
\* Properties of HttpRequestService::call
\* ------------------------------------------------------------------------

\* The positions of the trace at which the inner service was called.
InnerCalls(lg) == {i \in DOMAIN lg : lg[i].kind = "inner.call"}

\* C13: in call, the method, path, protocol name and request id, and
\* http.headers when the inspection list is not empty, are recorded before
\* the inner service is called, hence before the inner future is first
\* polled; the request given to the inner service carries a RequestInfo with
\* the protocol and the request id the ResponseFut holds.
C13_PreFieldsBeforeInner ==
    \A r \in Futs :
        phase[r] # "idle" =>
            LET lg == log[r]
                required == {"http.request.method", "url.path", "network.protocol.name",
                             "http.request_id"}
                             \cup (IF layer.inspect_headers # <<>> THEN {"http.headers"} ELSE {})
            IN  /\ Cardinality(InnerCalls(lg)) = 1
                /\ \A c \in InnerCalls(lg) :
                      /\ \A f \in required :
                            /\ RecordCalls(lg, f) # {}
                            /\ span[r][f] # <<>>
                      /\ \A f \in PreFields : \A i \in RecordCalls(lg, f) : i < c
                      /\ \A p \in InnerPolls(lg) : c < p
                /\ (layer.inspect_headers = <<>>) => span[r]["http.headers"] = <<>>
                /\ handler[r].extensions # None
                /\ handler[r].extensions[1].protocol = fut[r].protocol
                /\ handler[r].extensions[1].request_id = fut[r].request_id

C13_Witness ==
    /\ phase[1] = "ready" /\ polls[1] >= 1
    /\ layer.inspect_headers # <<>>
    /\ Len(span[1]["http.headers"]) = 1
    /\ span[1]["http.headers"][1] # <<>>
    /\ handler[1].extensions # None
    /\ handler[1].extensions[1].request_id = fut[1].request_id

\* ------------------------------------------------------------------------
\* Properties of the decoder's validation
\* ------------------------------------------------------------------------

IsHexDigits(text) == \A i \in 1..Len(text) : HexDigit(text[i]) # None

\* C14: extract returns the sentinel context for every traceparent value
\* whose number of '-'-separated groups is not exactly 4, a valid header
\* followed by further groups included.
C14_ExactlyFourGroups ==
    (op = "extract" /\ headers["traceparent"] # <<>>
        /\ IsVisibleAscii(headers["traceparent"][1])
        /\ Len(Groups(headers)) # 4)
            => ctxOut[1] = DefaultContext

\* C15: extract returns a context other than the sentinel only when the
\* version group is 2 hex digits, the trace-id group 32 hex digits, the
\* parent-id group 16 hex digits and the flags group 2 hex digits.
C15_ExactWidths ==
    (op = "extract" /\ ctxOut[1] # DefaultContext) =>
        LET g == Groups(headers)
        IN  /\ Len(g) >= 4
            /\ Len(g[1]) = 2 /\ IsHexDigits(g[1])
            /\ Len(g[2]) = 32 /\ IsHexDigits(g[2])
            /\ Len(g[3]) = 16 /\ IsHexDigits(g[3])
            /\ Len(g[4]) = 2 /\ IsHexDigits(g[4])

\* C16: every context extract returns is the sentinel or has trace_id # 0:
\* none has trace_id = 0 together with parent_id # 0.
C16_NoPartialSentinel ==
    op = "extract" => (ctxOut[1] = DefaultContext \/ ctxOut[1].trace_id # <<>>)

\* ------------------------------------------------------------------------
\* Properties of the request id held by the response future
\* ------------------------------------------------------------------------

\* C17: the request id held by ResponseFut, copied (cut to 64 bytes) from
\* the inbound x-request-id value or generated as a 36-byte hyphenated UUID,
\* is at most 64 bytes of valid header-value bytes, so every successful
\* resolution returns a response carrying it as x-request-id: the branch
\* that skips the header is never taken.
C17_RequestIdAttachable ==
    \A r \in Futs :
        phase[r] # "idle" =>
            LET id == as_bytes(fut[r].request_id)
            IN  /\ Len(id) <= RequestIdCapacity
                /\ IsValidHeaderValue(id)
                /\ handler[r].headers["x-request-id"] = <<>> => Len(id) = 36
                /\ (phase[r] = "ready" /\ innerOut[r].kind = "Ok") =>
                      /\ out[r].kind = "Ok"
                      /\ out[r].resp.headers["x-request-id"] = <<id>>

C17_Witness ==
    /\ phase[1] = "ready" /\ innerOut[1].kind = "Ok"
    /\ handler[1].headers["x-request-id"] = <<>>
    /\ innerOut[1].resp.headers["x-request-id"] = <<>>
    /\ out[1].resp.headers["x-request-id"] # <<>>
    /\ Len(out[1].resp.headers["x-request-id"][1]) = 36

C17_WitnessInbound ==
    /\ phase[1] = "ready" /\ innerOut[1].kind = "Ok"
    /\ handler[1].headers["x-request-id"] = <<<<9, 32, 200, 255>>>>
    /\ out[1].resp.headers["x-request-id"] = <<<<9, 32, 200, 255>>>>

====
